---- MODULE Spec2Model ----
(***************************************************************************)
(* Protocol Zero: the progression ledger (users table), the event log      *)
(* (interactions table), the Discord command handlers of bot.py and the    *)
(* HTTP handlers of api.py that use them.                                  *)
(*                                                                         *)
(* The two SQL tables are the state.  A handler runs without a suspension  *)
(* point between its storage calls (the only await of on_message is the    *)
(* final channel.send), so one handler is one action.                      *)
(***************************************************************************)
EXTENDS Integers, Sequences, FiniteSets, TLC

VARIABLES
    users,          \* users table: discord_id -> row (PRIMARY KEY discord_id)
    interactions,   \* interactions table, in insertion (id) order
    now,            \* the wall clock read by datetime.now(), in seconds
    ai_client,      \* TRUE when genai.Client was constructed at start-up
    is_postgres,    \* DatabaseManager.is_postgres, fixed at construction
    last,           \* the last completed operation and what it returned
    track,          \* per subject: kind of its latest ledger event, run of successes
    scen,           \* per subject: position in the three-call success scenario
    schema,         \* the tables that exist in the store
    open_conns,     \* connections handed out by get_connection and not closed
    dup_rows,       \* users rows stored under a discord_id that already has a row
    calls           \* per process instance: its update_xp call in flight

vars == <<users, interactions, now, ai_client, is_postgres, last, track, scen,
          schema, open_conns, dup_rows, calls>>

\* the variables that only the storage-level actions touch
store == <<schema, open_conns, dup_rows, calls>>

(***************************************************************************)
(* Bounds of the model                                                     *)
(***************************************************************************)
MaxXp == 110            \* no grant is made that would push the xp of all subjects above this
MaxEvents == 2          \* no event is appended to a log that already holds this many
MaxHourEvents == 3      \* as MaxEvents, for the hour-of-day specification
MaxBoardXp == 100       \* no grant pushes one subject's xp above this (leaderboard specification)
MaxLeaks == 2           \* no storage call fails once this many connections were left open
MaxStreak == 2          \* no direct update_streak call raises a streak above this
MaxLevelXp == 210       \* no grant pushes one subject's xp above this (levels specification)

Users == {"A", "B"}                 \* discord ids that send commands
Names == {"Ann", "Bob"}             \* display names (message.author.name)
BoardUsers == {"A", "B", "C", "D", "E", "F"}
AllUsers == Users \cup BoardUsers

\* xp_amount values passed to DatabaseManager.update_xp by a direct caller
Amounts == {60, 100}
BoardAmounts == {50, 100}

\* the cooldown of the success scenario (5 minutes); the source has no cooldown
CooldownSeconds == 5 * 60

\* instants the clock may advance to
Instants == {0, CooldownSeconds}

HourSeconds == 60 * 60
DaySeconds == 24 * HourSeconds
HourInstants ==
    {0, 9 * HourSeconds + 3599, 10 * HourSeconds, 23 * HourSeconds + 1,
     DaySeconds + 30, DaySeconds + 9 * HourSeconds}

(***************************************************************************)
(* Time stamps: datetime.now().strftime("%Y-%m-%d %H:%M:%S")               *)
(***************************************************************************)
\* str(i) for 0 <= i < 100, as its sequence of decimal digits
Str(i) == IF i < 10 THEN <<i>> ELSE <<i \div 10, i % 10>>

\* s.zfill(2)
zfill2(s) == IF Len(s) < 2 THEN <<0>> \o s ELSE s

\* the text of a time stamp: the date part and the two-digit %H, %M, %S parts
strftime(t) ==
    [ date |-> t \div DaySeconds,
      H    |-> zfill2(Str((t \div HourSeconds) % 24)),
      M    |-> zfill2(Str((t \div 60) % 60)),
      S    |-> zfill2(Str(t % 60)) ]

(***************************************************************************)
(* oracle.py                                                               *)
(***************************************************************************)
punishments ==
    << "20 Push-ups", "20 Squats", "1 Minute Plank", "50 Jumping Jacks",
       "30 Lunges", "Wall Sit (45 seconds)", "Burpees (10 reps)",
       "Cold Shower (30 seconds)", "No Music for 1 Hour",
       "Clean your room/desk immediately", "Write 'I am in control' 20 times",
       "Drink 1 full glass of water", "Code 10 lines of Python",
       "Read 5 pages of a book" >>

\* the values random.choice(punishments) may return, narrowed to two of them
ChoiceIdx == {1, 14}
consult_oracle == { punishments[i] : i \in ChoiceIdx }

(***************************************************************************)
(* database_manager.py                                                     *)
(***************************************************************************)
\* log_interaction that keeps one row per user (INSERT OR REPLACE on user_id)
log_interaction_replace(ints, user_id, user_name, verdict, t) ==
    LET kept == SelectSeq(ints, LAMBDA e : e.user_id # user_id)
    IN  Append(kept,
               [ id        |-> IF ints = <<>> THEN 1 ELSE ints[Len(ints)].id + 1,
                 user_id   |-> user_id,
                 user_name |-> user_name,
                 verdict   |-> verdict,
                 timestamp |-> strftime(t) ])

\* INSERT INTO interactions: the id column is auto-incrementing
log_interaction(ints, user_id, user_name, verdict, t) ==
    Append(ints,
           [ id        |-> IF ints = <<>> THEN 1 ELSE ints[Len(ints)].id + 1,
             user_id   |-> user_id,
             user_name |-> user_name,
             verdict   |-> verdict,
             timestamp |-> strftime(t) ])

\* the tuple (new_level, current_xp) that update_xp returns
Granted(new_level, current_xp) ==
    [kind |-> "granted", new_level |-> new_level, current_xp |-> current_xp]

\* update_xp that creates the row with 0 XP, as its docstring has it
\* ("New users start at Level 1 with 0 XP"), and drops the first grant
update_xp_insert_zero(us, user_id, user_name, xp_amount, t) ==
    IF user_id \notin DOMAIN us
    THEN [ users |-> [d \in DOMAIN us \cup {user_id} |->
                        IF d = user_id
                        THEN [ username    |-> user_name,
                               xp          |-> 0,
                               level       |-> 1,
                               streak      |-> 0,
                               last_active |-> strftime(t) ]
                        ELSE us[d]],
           ret   |-> Granted(1, 0) ]
    ELSE LET current_xp    == us[user_id].xp + xp_amount
             current_level == us[user_id].level
             new_level     == IF current_xp >= current_level * 100
                              THEN current_level + 1
                              ELSE current_level
         IN  [ users |-> [us EXCEPT ![user_id] =
                            [ username    |-> user_name,
                              xp          |-> current_xp,
                              level       |-> new_level,
                              streak      |-> @.streak,
                              last_active |-> strftime(t) ]],
               ret   |-> Granted(new_level, current_xp) ]

\* update_xp that stores the level as xp // 100, the "+ 1" forgotten
update_xp_level_floor(us, user_id, user_name, xp_amount, t) ==
    IF user_id \notin DOMAIN us
    THEN [ users |-> [d \in DOMAIN us \cup {user_id} |->
                        IF d = user_id
                        THEN [ username    |-> user_name,
                               xp          |-> xp_amount,
                               level       |-> 1,
                               streak      |-> 0,
                               last_active |-> strftime(t) ]
                        ELSE us[d]],
           ret   |-> Granted(1, xp_amount) ]
    ELSE LET current_xp == us[user_id].xp + xp_amount
             new_level  == current_xp \div 100
         IN  [ users |-> [us EXCEPT ![user_id] =
                            [ username    |-> user_name,
                              xp          |-> current_xp,
                              level       |-> new_level,
                              streak      |-> @.streak,
                              last_active |-> strftime(t) ]],
               ret   |-> Granted(new_level, current_xp) ]

\* update_xp with "Option A" of its level-up: the XP needed is subtracted
update_xp_option_a(us, user_id, user_name, xp_amount, t) ==
    IF user_id \notin DOMAIN us
    THEN [ users |-> [d \in DOMAIN us \cup {user_id} |->
                        IF d = user_id
                        THEN [ username    |-> user_name,
                               xp          |-> xp_amount,
                               level       |-> 1,
                               streak      |-> 0,
                               last_active |-> strftime(t) ]
                        ELSE us[d]],
           ret   |-> Granted(1, xp_amount) ]
    ELSE LET summed        == us[user_id].xp + xp_amount
             current_level == us[user_id].level
             xp_needed     == current_level * 100
             levelled      == summed >= xp_needed
             current_xp    == IF levelled THEN summed - xp_needed ELSE summed
             new_level     == IF levelled THEN current_level + 1 ELSE current_level
         IN  [ users |-> [us EXCEPT ![user_id] =
                            [ username    |-> user_name,
                              xp          |-> current_xp,
                              level       |-> new_level,
                              streak      |-> @.streak,
                              last_active |-> strftime(t) ]],
               ret   |-> Granted(new_level, current_xp) ]

\* update_xp whose UPDATE leaves the username column alone
update_xp_keep_name(us, user_id, user_name, xp_amount, t) ==
    IF user_id \notin DOMAIN us
    THEN [ users |-> [d \in DOMAIN us \cup {user_id} |->
                        IF d = user_id
                        THEN [ username    |-> user_name,
                               xp          |-> xp_amount,
                               level       |-> 1,
                               streak      |-> 0,
                               last_active |-> strftime(t) ]
                        ELSE us[d]],
           ret   |-> Granted(1, xp_amount) ]
    ELSE LET current_xp    == us[user_id].xp + xp_amount
             current_level == us[user_id].level
             xp_needed     == current_level * 100
             new_level     == IF current_xp >= xp_needed
                              THEN current_level + 1
                              ELSE current_level
         IN  [ users |-> [us EXCEPT ![user_id] =
                            [ username    |-> @.username,
                              xp          |-> current_xp,
                              level       |-> new_level,
                              streak      |-> @.streak,
                              last_active |-> strftime(t) ]],
               ret   |-> Granted(new_level, current_xp) ]

\* update_xp that returns the level it read, not the level it stored
update_xp_returns_old_level(us, user_id, user_name, xp_amount, t) ==
    IF user_id \notin DOMAIN us
    THEN [ users |-> [d \in DOMAIN us \cup {user_id} |->
                        IF d = user_id
                        THEN [ username    |-> user_name,
                               xp          |-> xp_amount,
                               level       |-> 1,
                               streak      |-> 0,
                               last_active |-> strftime(t) ]
                        ELSE us[d]],
           ret   |-> Granted(1, xp_amount) ]
    ELSE LET current_xp    == us[user_id].xp + xp_amount
             current_level == us[user_id].level
             xp_needed     == current_level * 100
             new_level     == IF current_xp >= xp_needed
                              THEN current_level + 1
                              ELSE current_level
         IN  [ users |-> [us EXCEPT ![user_id] =
                            [ username    |-> user_name,
                              xp          |-> current_xp,
                              level       |-> new_level,
                              streak      |-> @.streak,
                              last_active |-> strftime(t) ]],
               ret   |-> Granted(current_level, current_xp) ]

\* update_xp whose level-up asks for more XP than the level needs (> for >=)
update_xp_level_up_above(us, user_id, user_name, xp_amount, t) ==
    IF user_id \notin DOMAIN us
    THEN [ users |-> [d \in DOMAIN us \cup {user_id} |->
                        IF d = user_id
                        THEN [ username    |-> user_name,
                               xp          |-> xp_amount,
                               level       |-> 1,
                               streak      |-> 0,
                               last_active |-> strftime(t) ]
                        ELSE us[d]],
           ret   |-> Granted(1, xp_amount) ]
    ELSE LET current_xp    == us[user_id].xp + xp_amount
             current_level == us[user_id].level
             xp_needed     == current_level * 100
             new_level     == IF current_xp > xp_needed
                              THEN current_level + 1
                              ELSE current_level
         IN  [ users |-> [us EXCEPT ![user_id] =
                            [ username    |-> user_name,
                              xp          |-> current_xp,
                              level       |-> new_level,
                              streak      |-> @.streak,
                              last_active |-> strftime(t) ]],
               ret   |-> Granted(new_level, current_xp) ]

\* update_xp: select, then insert a new row or update the existing one
update_xp(us, user_id, user_name, xp_amount, t) ==
    IF user_id \notin DOMAIN us
    THEN [ users |-> [d \in DOMAIN us \cup {user_id} |->
                        IF d = user_id
                        THEN [ username    |-> user_name,
                               xp          |-> xp_amount,
                               level       |-> 1,
                               streak      |-> 0,
                               last_active |-> strftime(t) ]
                        ELSE us[d]],
           ret   |-> Granted(1, xp_amount) ]
    ELSE LET current_xp    == us[user_id].xp + xp_amount
             current_level == us[user_id].level
             xp_needed     == current_level * 100
             new_level     == IF current_xp >= xp_needed
                              THEN current_level + 1
                              ELSE current_level
         IN  [ users |-> [us EXCEPT ![user_id] =
                            [ username    |-> user_name,
                              xp          |-> current_xp,
                              level       |-> new_level,
                              streak      |-> @.streak,
                              last_active |-> strftime(t) ]],
               ret   |-> Granted(new_level, current_xp) ]

\* get_user_stats whose defaults are those of the !oracle error path (0, 0)
get_user_stats_zero_defaults(us, user_id) ==
    IF user_id \in DOMAIN us
    THEN [level |-> us[user_id].level, xp |-> us[user_id].xp,
          streak |-> us[user_id].streak]
    ELSE [level |-> 0, xp |-> 0, streak |-> 0]

\* get_user_stats: the row's level, xp and streak, or the defaults
get_user_stats(us, user_id) ==
    IF user_id \in DOMAIN us
    THEN [level |-> us[user_id].level, xp |-> us[user_id].xp,
          streak |-> us[user_id].streak]
    ELSE [level |-> 1, xp |-> 0, streak |-> 0]

\* SELECT COUNT(*) FROM interactions
get_total_count(ints) == Cardinality(DOMAIN ints)

(***************************************************************************)
(* bot.py                                                                  *)
(***************************************************************************)
\* update_streak that ignores reset and always increments
update_streak_increments(us, user_id, reset) ==
    IF user_id \notin DOMAIN us
    THEN us
    ELSE [us EXCEPT ![user_id].streak = @ + 1]

\* update_streak as an upsert: a subject without a row gets one
update_streak_upsert(us, user_id, reset) ==
    IF user_id \notin DOMAIN us
    THEN [d \in DOMAIN us \cup {user_id} |->
            IF d = user_id
            THEN [ username    |-> "",
                   xp          |-> 0,
                   level       |-> 1,
                   streak      |-> IF reset THEN 0 ELSE 1,
                   last_active |-> strftime(0) ]
            ELSE us[d]]
    ELSE IF reset
         THEN [us EXCEPT ![user_id].streak = 0]
         ELSE [us EXCEPT ![user_id].streak = @ + 1]

\* update_streak whose UPDATE has no WHERE clause
update_streak_no_where(us, user_id, reset) ==
    [d \in DOMAIN us |->
        [us[d] EXCEPT !.streak = IF reset THEN 0 ELSE @ + 1]]

\* update_streak: an UPDATE ... WHERE discord_id = ?, which touches no row
\* when the subject has none
update_streak(us, user_id, reset) ==
    IF user_id \notin DOMAIN us
    THEN us
    ELSE IF reset
         THEN [us EXCEPT ![user_id].streak = 0]
         ELSE [us EXCEPT ![user_id].streak = @ + 1]

BACKUP_ROASTS ==
    { "Even the AI refuses to talk to you.",
      "Just do the punishment. Don't cry.",
      "404: Willpower Not Found." }

\* what generate_content may do: answer with some text, or raise
GeminiText == "<gemini text>"
GeminiOutcomes == {"text", "raise"}

\* get_ai_roast that answers a failed generation with the error text
get_ai_roast_error_text(client, outcome) ==
    IF ~client THEN BACKUP_ROASTS
    ELSE IF outcome = "text" THEN {GeminiText}
    ELSE {"[ERROR] Gemini Failed"}

\* get_ai_roast
get_ai_roast(client, outcome) ==
    IF ~client THEN BACKUP_ROASTS
    ELSE IF outcome = "text" THEN {GeminiText}
    ELSE BACKUP_ROASTS

\* get_ai_praise
get_ai_praise(client, outcome) ==
    IF ~client THEN "Not bad. Do it again."
    ELSE IF outcome = "text" THEN GeminiText
    ELSE "Target destroyed. Well done."

(***************************************************************************)
(* database_manager.py: the read queries                                   *)
(***************************************************************************)
\* the order of ORDER BY xp DESC, the level forgotten
OrderedBefore_xp_only(r1, r2) == r1.xp > r2.xp

\* r1 sorts before r2 under ORDER BY level DESC, xp DESC
OrderedBefore(r1, r2) ==
    \/ r1.level > r2.level
    \/ r1.level = r2.level /\ r1.xp > r2.xp

\* the orders in which ORDER BY level DESC, xp DESC may deliver the rows of
\* the ids in S (rows that tie on both keys come in any order)
RECURSIVE OrderBy(_, _)
OrderBy(us, S) ==
    IF S = {} THEN { <<>> }
    ELSE UNION { { <<m>> \o rest : rest \in OrderBy(us, S \ {m}) } :
                 m \in { d \in S : \A e \in S : ~OrderedBefore(us[e], us[d]) } }

\* LIMIT n
Limit(rows, n) == SubSeq(rows, 1, IF Len(rows) < n THEN Len(rows) ELSE n)

LeaderboardLimit == 5

\* the row sets the leaderboard query may fetch, as sequences of discord ids
leaderboard_rows(us) ==
    { Limit(rows, LeaderboardLimit) : rows \in OrderBy(us, DOMAIN us) }

\* get_leaderboard: the fetched rows as {username, level, xp} dictionaries
get_leaderboard(us, rows) ==
    [ i \in 1..Len(rows) |->
        [ username |-> us[rows[i]].username,
          level    |-> us[rows[i]].level,
          xp       |-> us[rows[i]].xp ] ]

\* get_recent_history with ORDER BY id ASC
get_recent_history_oldest_first(ints, limit) ==
    LET n == IF Len(ints) < limit THEN Len(ints) ELSE limit
    IN  [ i \in 1..n |->
            [ user    |-> ints[i].user_name,
              verdict |-> ints[i].verdict,
              time    |-> ints[i].timestamp ] ]

\* get_recent_history: ORDER BY id DESC LIMIT limit
get_recent_history(ints, limit) ==
    LET n == IF Len(ints) < limit THEN Len(ints) ELSE limit
    IN  [ i \in 1..n |->
            [ user    |-> ints[Len(ints) + 1 - i].user_name,
              verdict |-> ints[Len(ints) + 1 - i].verdict,
              time    |-> ints[Len(ints) + 1 - i].timestamp ] ]

\* get_verdict_counts: SELECT verdict, COUNT(*) ... GROUP BY verdict
get_verdict_counts(ints) ==
    [ v \in { ints[i].verdict : i \in DOMAIN ints } |->
        Cardinality({ i \in DOMAIN ints : ints[i].verdict = v }) ]

\* TO_CHAR(timestamp::timestamp, 'HH24') and strftime('%H', timestamp)
to_char_HH24(ts) == ts.H
sqlite_strftime_H(ts) == ts.H

\* the rows of SELECT <hour>, COUNT(*) FROM interactions GROUP BY 1
hourly_rows(ints, pg) ==
    LET hour(e) == IF pg THEN to_char_HH24(e.timestamp)
                   ELSE sqlite_strftime_H(e.timestamp)
    IN  { <<h, Cardinality({ i \in DOMAIN ints : hour(ints[i]) = h })>> :
          h \in { hour(ints[i]) : i \in DOMAIN ints } }

\* the key of hourly_data without the zfill: "0" .. "9" miss "00" .. "09"
hour_key_unpadded(i) == Str(i)

\* the key of hourly_data for hour i: str(i).zfill(2)
hour_key(i) == zfill2(Str(i))

\* get_hourly_activity: the 24 values of hourly_data, in key order
get_hourly_activity(ints, pg) ==
    LET rows == hourly_rows(ints, pg)
    IN  [ k \in 1..24 |->
            IF \E row \in rows : row[1] = hour_key(k - 1)
            THEN (CHOOSE row \in rows : row[1] = hour_key(k - 1))[2]
            ELSE 0 ]

(***************************************************************************)
(* api.py                                                                  *)
(***************************************************************************)
API_BACKUP_ROASTS ==
    { "The AI is offline, but you are still weak.",
      "Even the servers are disappointed in you.",
      "Just do the reps, human." }

\* PART 2 of summon_oracle: the roast
summon_roast(client, outcome) ==
    IF client
    THEN IF outcome = "text" THEN {GeminiText} ELSE API_BACKUP_ROASTS
    ELSE API_BACKUP_ROASTS

HistoryLimit == 5

(***************************************************************************)
(* Storage: tables, connections, failures                                  *)
(***************************************************************************)
Tables == {"interactions", "users"}

\* CREATE TABLE that first drops the table
create_table_drop_first(tabs, rows, name) ==
    [tables |-> tabs \cup {name}, rows |-> << >>, raised |-> FALSE]

\* CREATE TABLE IF NOT EXISTS name: rows is what the table holds
create_table(tabs, rows, name) ==
    IF name \in tabs
    THEN [tables |-> tabs, rows |-> rows, raised |-> FALSE]
    ELSE [tables |-> tabs \cup {name}, rows |-> << >>, raised |-> FALSE]

\* a users table without its key
primary_key_absent(us, user_id) == FALSE

\* discord_id TEXT PRIMARY KEY: an INSERT under an id that has a row is refused
primary_key_violated(us, user_id) == user_id \in DOMAIN us

\* how a storage call may go: it works, get_connection raises, or a query
\* or the commit raises after the connection was handed out
Faults == {"ok", "connect", "query"}

Raises(f) == f # "ok"

\* the connections a storage call leaves open: conn.close() is the last
\* statement of every method, so a raise after get_connection skips it
Leak(f) == IF f = "query" THEN 1 ELSE 0

(***************************************************************************)
(* Observation of the run: the last operation, and per-subject history     *)
(***************************************************************************)
NoRet == [kind |-> "none"]

Procs == {1, 2}

\* an update_xp call: where it stands, its arguments, its current_time and
\* what its SELECT delivered
Idle == [pc |-> "idle", uid |-> "", name |-> "", amt |-> 0, t |-> 0, res |-> << >>]

\* the call update_xp(user_id, user_name, xp_amount) made at time t, returned
Call(user_id, user_name, xp_amount, t) ==
    [pc |-> "returned", uid |-> user_id, name |-> user_name, amt |-> xp_amount,
     t |-> t, res |-> << >>]

\* the (new_level, current_xp) of the except branch of !oracle
Defaulted == [kind |-> "defaulted", new_level |-> 0, current_xp |-> 0]

\* the record of a completed operation: what was asked, what was answered,
\* and the two tables, the subject's history and the clock when it began;
\* pretabs the tables that existed then; raised tells that an exception left
\* the operation, ai what became of the Gemini call, call which update_xp
\* call the operation made, failed which of its storage calls raised
Done(op, u, verdict, roast, ret, streak) ==
    [ op      |-> op,
      uid     |-> u,
      verdict |-> verdict,
      roast   |-> roast,
      ret     |-> ret,
      streak  |-> streak,
      pre     |-> users,
      preints |-> interactions,
      prek    |-> IF u \in AllUsers THEN track[u] ELSE [kind |-> "none", run |-> 0],
      t       |-> now,
      pretabs |-> schema,
      raised  |-> FALSE,
      ai      |-> "none",
      call    |-> Idle,
      failed  |-> {} ]

\* an operation that an exception left
Raised(op, u) == [Done(op, u, "", "", NoRet, 0) EXCEPT !.raised = TRUE]

\* what became of the Gemini call
AiSeen(client, outcome) == IF client THEN outcome ELSE "absent"

\* the latest ledger event of a subject: "failure" (!oracle), "success"
\* (!resist) or "grant" (a direct update_xp), and the number of successes
\* since its last failure
TrackStep(tr, u, kind) ==
    [tr EXCEPT ![u] =
        [ kind |-> kind,
          run  |-> IF kind = "success" THEN @.run + 1
                   ELSE IF kind = "failure" THEN 0 ELSE @.run ]]

\* position of a subject in the scenario "first success call of 50, an
\* immediate second success call, a call of 60 once the cooldown is over";
\* t0 is the time of the first call, pos = 9 once the subject left the scenario
ScenOff == [pos |-> 9, t0 |-> 0]

ScenStep(sc, u, xp_amount, t) ==
    [sc EXCEPT ![u] =
        IF @.pos = 0 /\ xp_amount = 50 THEN [pos |-> 1, t0 |-> t]
        ELSE IF @.pos = 1 /\ xp_amount = 50 /\ t - @.t0 <= 1 THEN [@ EXCEPT !.pos = 2]
        ELSE IF @.pos = 2 /\ xp_amount = 60 /\ t - @.t0 >= CooldownSeconds
             THEN [@ EXCEPT !.pos = 3]
        ELSE ScenOff]

\* the xp held by the subjects of S together, for the bound on grants
RECURSIVE XpOf(_)
XpOf(S) ==
    IF S = {} THEN 0
    ELSE LET d == CHOOSE e \in S : TRUE
         IN  users[d].xp + XpOf(S \ {d})

(***************************************************************************)
(* Initial state                                                           *)
(***************************************************************************)
\* a store holding the tables tabs, all empty
InitStore(clients, pgs, tabs) ==
    /\ users = << >>
    /\ interactions = << >>
    /\ now = 0
    /\ ai_client \in clients
    /\ is_postgres \in pgs
    /\ last = [ op |-> "init", uid |-> "", verdict |-> "", roast |-> "",
                ret |-> NoRet, streak |-> 0, pre |-> << >>, preints |-> << >>,
                prek |-> [kind |-> "none", run |-> 0], t |-> 0,
                pretabs |-> tabs, raised |-> FALSE, ai |-> "none",
                call |-> Idle, failed |-> {} ]
    /\ track = [u \in AllUsers |-> [kind |-> "none", run |-> 0]]
    /\ scen = [u \in AllUsers |-> [pos |-> 0, t0 |-> 0]]
    /\ schema = tabs
    /\ open_conns = 0
    /\ dup_rows = << >>
    /\ calls = [p \in Procs |-> Idle]

\* the state once DatabaseManager() has run: both tables created and empty
InitWith(clients, pgs) == InitStore(clients, pgs, Tables)

Init == InitWith({TRUE}, {FALSE})

(***************************************************************************)
(* The clock                                                               *)
(***************************************************************************)
TickTo(S) ==
    /\ \E t \in S : t > now /\ now' = t
    /\ UNCHANGED <<users, interactions, ai_client, is_postgres, last, track, scen>>
    /\ UNCHANGED store

Tick == TickTo(Instants)

(***************************************************************************)
(* database_manager.py: initialize_db                                      *)
(***************************************************************************)
initialize_db ==
    /\ LET i == create_table(schema, interactions, "interactions")
           u == create_table(i.tables, users, "users")
       IN  /\ schema' = u.tables
           /\ interactions' = i.rows
           /\ users' = u.rows
           /\ last' = [ Done("initialize_db", "", "", "", NoRet, 0)
                        EXCEPT !.raised = i.raised \/ u.raised ]
    /\ UNCHANGED <<now, ai_client, is_postgres, track, scen, open_conns, dup_rows, calls>>

(***************************************************************************)
(* bot.py: on_message                                                      *)
(***************************************************************************)
\* !oracle without the try around its database operations
OracleCmd_no_try(user_id, user_name, outcomes, faults) ==
    /\ Len(interactions) < MaxEvents
    /\ XpOf(DOMAIN users) + 10 <= MaxXp
    /\ \E verdict \in consult_oracle, outcome \in outcomes,
          fl \in faults, fs \in faults, fx \in faults :
         \E roast \in get_ai_roast(ai_client, outcome) :
            LET logged == log_interaction(interactions, user_id, user_name, verdict, now)
                reset  == IF Raises(fs) THEN users
                          ELSE update_streak(users, user_id, TRUE)
                grant  == update_xp(reset, user_id, user_name, 10, now)
                leaks  == IF Raises(fl) THEN Leak(fl)
                          ELSE Leak(fs) + Leak(fx)
                failed == IF Raises(fl) THEN {"log_interaction"}
                          ELSE (IF Raises(fs) THEN {"update_streak"} ELSE {})
                               \cup (IF Raises(fx) THEN {"update_xp"} ELSE {})
            IN  /\ open_conns + leaks <= MaxLeaks
                /\ open_conns' = open_conns + leaks
                /\ interactions' = IF Raises(fl) THEN interactions ELSE logged
                /\ users' = IF Raises(fl) THEN users
                            ELSE IF Raises(fx) THEN reset ELSE grant.users
                /\ last' = IF Raises(fl) \/ Raises(fx)
                           THEN [Raised("oracle", user_id) EXCEPT !.failed = failed]
                           ELSE [ Done("oracle", user_id, verdict, roast, grant.ret, 0)
                                  EXCEPT !.ai = AiSeen(ai_client, outcome),
                                         !.call = Call(user_id, user_name, 10, now),
                                         !.failed = failed ]
                /\ track' = IF Raises(fl) THEN track
                            ELSE TrackStep(track, user_id, "failure")
    /\ scen' = [scen EXCEPT ![user_id] = ScenOff]
    /\ UNCHANGED <<now, ai_client, is_postgres, schema, dup_rows, calls>>

\* !oracle; fl, fs, fx are how log_interaction, update_streak and update_xp go
OracleCmd(user_id, user_name, outcomes, faults) ==
    /\ Len(interactions) < MaxEvents
    /\ XpOf(DOMAIN users) + 10 <= MaxXp
    /\ \E verdict \in consult_oracle, outcome \in outcomes,
          fl \in faults, fs \in faults, fx \in faults :
         \E roast \in get_ai_roast(ai_client, outcome) :
            LET logged == log_interaction(interactions, user_id, user_name, verdict, now)
                reset  == IF Raises(fs) THEN users
                          ELSE update_streak(users, user_id, TRUE)
                grant  == update_xp(reset, user_id, user_name, 10, now)
                leaks  == IF Raises(fl) THEN Leak(fl)
                          ELSE Leak(fs) + Leak(fx)
            IN  /\ open_conns + leaks <= MaxLeaks
                /\ open_conns' = open_conns + leaks
                /\ interactions' = IF Raises(fl) THEN interactions ELSE logged
                /\ users' = IF Raises(fl) THEN users
                            ELSE IF Raises(fx) THEN reset ELSE grant.users
                /\ last' = [ Done("oracle", user_id, verdict, roast,
                                  IF Raises(fl) \/ Raises(fx) THEN Defaulted
                                  ELSE grant.ret, 0)
                             EXCEPT !.ai = AiSeen(ai_client, outcome),
                                    !.call = IF Raises(fl) \/ Raises(fx) THEN Idle
                                             ELSE Call(user_id, user_name, 10, now),
                                    !.failed =
                                        IF Raises(fl) THEN {"log_interaction"}
                                        ELSE (IF Raises(fs) THEN {"update_streak"} ELSE {})
                                             \cup (IF Raises(fx) THEN {"update_xp"} ELSE {}) ]
                /\ track' = IF Raises(fl) THEN track
                            ELSE TrackStep(track, user_id, "failure")
    /\ scen' = [scen EXCEPT ![user_id] = ScenOff]
    /\ UNCHANGED <<now, ai_client, is_postgres, schema, dup_rows, calls>>

\* !resist that increments the streak before it grants the XP, so that the
\* UPDATE of a subject's first !resist finds no row yet
ResistCmd_streak_first(user_id, user_name, outcomes, faults) ==
    /\ XpOf(DOMAIN users) + 50 <= MaxXp
    /\ \E outcome \in outcomes, fx \in faults, fs \in faults, fg \in faults :
         LET bumped == IF Raises(fs) THEN users
                       ELSE update_streak(users, user_id, FALSE)
             grant  == update_xp(bumped, user_id, user_name, 50, now)
             stats  == get_user_stats(grant.users, user_id)
             praise == get_ai_praise(ai_client, outcome)
             leaks  == Leak(fs) + Leak(fx) + (IF Raises(fx) THEN 0 ELSE Leak(fg))
         IN  /\ open_conns + leaks <= MaxLeaks
             /\ open_conns' = open_conns + leaks
             /\ users' = IF Raises(fx) THEN bumped ELSE grant.users
             /\ last' = IF Raises(fx) \/ Raises(fg)
                        THEN Raised("resist", user_id)
                        ELSE [ Done("resist", user_id, "", praise, grant.ret, stats.streak)
                               EXCEPT !.ai = AiSeen(ai_client, outcome),
                                      !.call = Call(user_id, user_name, 50, now),
                                      !.failed = IF Raises(fs) THEN {"update_streak"}
                                                 ELSE {} ]
             /\ track' = IF Raises(fx) THEN track
                         ELSE TrackStep(track, user_id, "success")
             /\ scen' = IF Raises(fx) THEN scen
                        ELSE ScenStep(scen, user_id, 50, now)
    /\ UNCHANGED <<interactions, now, ai_client, is_postgres, schema, dup_rows, calls>>

\* !resist; fx, fs, fg are how update_xp, update_streak and get_user_stats go
ResistCmd(user_id, user_name, outcomes, faults) ==
    /\ XpOf(DOMAIN users) + 50 <= MaxXp
    /\ \E outcome \in outcomes, fx \in faults, fs \in faults, fg \in faults :
         LET grant  == update_xp(users, user_id, user_name, 50, now)
             bumped == IF Raises(fs) THEN grant.users
                       ELSE update_streak(grant.users, user_id, FALSE)
             stats  == get_user_stats(bumped, user_id)
             praise == get_ai_praise(ai_client, outcome)
             leaks  == IF Raises(fx) THEN Leak(fx)
                       ELSE Leak(fs) + Leak(fg)
         IN  /\ open_conns + leaks <= MaxLeaks
             /\ open_conns' = open_conns + leaks
             /\ users' = IF Raises(fx) THEN users ELSE bumped
             /\ last' = IF Raises(fx) \/ Raises(fg)
                        THEN Raised("resist", user_id)
                        ELSE [ Done("resist", user_id, "", praise, grant.ret, stats.streak)
                               EXCEPT !.ai = AiSeen(ai_client, outcome),
                                      !.call = Call(user_id, user_name, 50, now),
                                      !.failed = IF Raises(fs) THEN {"update_streak"}
                                                 ELSE {} ]
             /\ track' = IF Raises(fx) THEN track
                         ELSE TrackStep(track, user_id, "success")
             /\ scen' = IF Raises(fx) THEN scen
                        ELSE ScenStep(scen, user_id, 50, now)
    /\ UNCHANGED <<interactions, now, ai_client, is_postgres, schema, dup_rows, calls>>

\* !leaderboard
LeaderboardCmd(faults) ==
    /\ \E f \in faults :
         /\ open_conns + Leak(f) <= MaxLeaks
         /\ open_conns' = open_conns + Leak(f)
         /\ IF Raises(f)
            THEN last' = Raised("leaderboard", "")
            ELSE \E rows \in leaderboard_rows(users) :
                    last' = [ Done("leaderboard", "", "", "", NoRet, 0) EXCEPT
                                !.ret = [kind |-> "leaderboard", ids |-> rows,
                                         board |-> get_leaderboard(users, rows)] ]
    /\ UNCHANGED <<users, interactions, now, ai_client, is_postgres, track, scen,
                   schema, dup_rows, calls>>

\* !stats that creates the row it does not find
StatsCmd_get_or_create(user_id, faults) ==
    /\ \E f \in faults :
         /\ open_conns + Leak(f) <= MaxLeaks
         /\ open_conns' = open_conns + Leak(f)
         /\ last' = IF Raises(f) THEN Raised("stats", user_id)
                    ELSE [ Done("stats", user_id, "", "", NoRet, 0) EXCEPT
                             !.ret = get_user_stats(users, user_id) ]
         /\ users' = IF Raises(f) \/ user_id \in DOMAIN users THEN users
                     ELSE update_xp(users, user_id, "", 0, now).users
    /\ UNCHANGED <<interactions, now, ai_client, is_postgres, track, scen,
                   schema, dup_rows, calls>>

\* !stats
StatsCmd(user_id, faults) ==
    /\ \E f \in faults :
         /\ open_conns + Leak(f) <= MaxLeaks
         /\ open_conns' = open_conns + Leak(f)
         /\ last' = IF Raises(f) THEN Raised("stats", user_id)
                    ELSE [ Done("stats", user_id, "", "", NoRet, 0) EXCEPT
                             !.ret = get_user_stats(users, user_id) ]
    /\ UNCHANGED <<users, interactions, now, ai_client, is_postgres, track, scen,
                   schema, dup_rows, calls>>

(***************************************************************************)
(* A direct caller of the ledger and of the event log                      *)
(***************************************************************************)
UpdateXpCall(user_id, user_name, xp_amount, scope, cap, faults) ==
    /\ XpOf(scope \cap DOMAIN users) + xp_amount <= cap
    /\ \E f \in faults :
         LET grant == update_xp(users, user_id, user_name, xp_amount, now)
         IN  /\ open_conns + Leak(f) <= MaxLeaks
             /\ open_conns' = open_conns + Leak(f)
             /\ users' = IF Raises(f) THEN users ELSE grant.users
             /\ last' = IF Raises(f) THEN Raised("update_xp", user_id)
                        ELSE [ Done("update_xp", user_id, "", "", grant.ret, 0)
                               EXCEPT !.call = Call(user_id, user_name, xp_amount, now) ]
             /\ track' = IF Raises(f) THEN track
                         ELSE TrackStep(track, user_id, "grant")
             /\ scen' = IF Raises(f) THEN scen
                        ELSE ScenStep(scen, user_id, xp_amount, now)
    /\ UNCHANGED <<interactions, now, ai_client, is_postgres, schema, dup_rows, calls>>

LogInteractionCall(user_id, user_name, verdict, cap, faults) ==
    /\ Len(interactions) < cap
    /\ \E f \in faults :
         /\ open_conns + Leak(f) <= MaxLeaks
         /\ open_conns' = open_conns + Leak(f)
         /\ interactions' =
               IF Raises(f) THEN interactions
               ELSE log_interaction(interactions, user_id, user_name, verdict, now)
         /\ last' = IF Raises(f) THEN Raised("log_interaction", user_id)
                    ELSE Done("log_interaction", user_id, verdict, "", NoRet, 0)
    /\ UNCHANGED <<users, now, ai_client, is_postgres, track, scen,
                   schema, dup_rows, calls>>

\* update_streak(user_id, reset): whatever raises inside is printed, not raised
UpdateStreakCall(user_id, reset, faults) ==
    /\ (user_id \in DOMAIN users /\ ~reset) => users[user_id].streak < MaxStreak
    /\ \E f \in faults :
         /\ open_conns + Leak(f) <= MaxLeaks
         /\ open_conns' = open_conns + Leak(f)
         /\ users' = IF Raises(f) THEN users
                     ELSE update_streak(users, user_id, reset)
         /\ last' = [ Done("update_streak", user_id, "", "", NoRet, 0) EXCEPT
                        !.failed = IF Raises(f) THEN {"update_streak"} ELSE {} ]
    /\ UNCHANGED <<interactions, now, ai_client, is_postgres, track, scen,
                   schema, dup_rows, calls>>

GetRecentHistoryCall(limit) ==
    /\ last' = [ Done("get_recent_history", "", "", "", NoRet, 0) EXCEPT
                   !.ret = [kind |-> "recent", limit |-> limit,
                            rows |-> get_recent_history(interactions, limit)] ]
    /\ UNCHANGED <<users, interactions, now, ai_client, is_postgres, track, scen>>
    /\ UNCHANGED store

(***************************************************************************)
(* update_xp called by two process instances: the SELECT and the write     *)
(* are separate statements, the write and its commit one step              *)
(***************************************************************************)
\* the xp of the grants in flight
RECURSIVE InFlight(_)
InFlight(P) ==
    IF P = {} THEN 0
    ELSE LET p == CHOOSE q \in P : TRUE
         IN  calls[p].amt + InFlight(P \ {p})

\* get_connection, datetime.now() and the SELECT of update_xp
XpSelect(p, user_id, user_name, xp_amount) ==
    /\ calls[p].pc = "idle"
    /\ XpOf(DOMAIN users) + InFlight(Procs) + xp_amount <= MaxXp
    /\ open_conns <= MaxLeaks
    /\ calls' = [calls EXCEPT ![p] =
                    [ pc   |-> "selected",
                      uid  |-> user_id,
                      name |-> user_name,
                      amt  |-> xp_amount,
                      t    |-> now,
                      res  |-> IF user_id \in DOMAIN users
                               THEN << <<users[user_id].xp, users[user_id].level>> >>
                               ELSE << >> ]]
    /\ open_conns' = open_conns + 1
    /\ UNCHANGED <<users, interactions, now, ai_client, is_postgres, last,
                   track, scen, schema, dup_rows>>

\* the write of update_xp behind a second look at the row: a call whose
\* row has changed since its SELECT is turned away
XpWrite_recheck(p) ==
    LET c == calls[p]
        fresh == [ username    |-> c.name,
                   xp          |-> c.amt,
                   level       |-> 1,
                   streak      |-> 0,
                   last_active |-> strftime(c.t) ]
        seen  == [users EXCEPT ![c.uid].xp = c.res[1][1],
                               ![c.uid].level = c.res[1][2]]
    IN  /\ c.pc = "selected"
        /\ calls' = [calls EXCEPT ![p] = Idle]
        /\ IF c.res = << >>
           THEN IF primary_key_violated(users, c.uid)
                THEN /\ last' = [Raised("update_xp", c.uid) EXCEPT !.call = c]
                     /\ UNCHANGED <<users, dup_rows, open_conns, track>>
                ELSE /\ IF c.uid \in DOMAIN users
                        THEN /\ dup_rows' = Append(dup_rows, [discord_id |-> c.uid] @@ fresh)
                             /\ users' = users
                        ELSE /\ users' = update_xp(users, c.uid, c.name, c.amt, c.t).users
                             /\ dup_rows' = dup_rows
                     /\ last' = [ Done("update_xp", c.uid, "", "", Granted(1, c.amt), 0)
                                  EXCEPT !.call = c ]
                     /\ open_conns' = open_conns - 1
                     /\ track' = TrackStep(track, c.uid, "grant")
           ELSE IF users[c.uid].xp # c.res[1][1]
           THEN /\ last' = [ Done("update_xp", c.uid, "", "", [kind |-> "rejected"], 0)
                             EXCEPT !.call = c ]
                /\ open_conns' = open_conns - 1
                /\ UNCHANGED <<users, dup_rows, track>>
           ELSE LET grant == update_xp(seen, c.uid, c.name, c.amt, c.t)
                IN  /\ users' = grant.users
                    /\ last' = [ Done("update_xp", c.uid, "", "", grant.ret, 0)
                                 EXCEPT !.call = c ]
                    /\ open_conns' = open_conns - 1
                    /\ track' = TrackStep(track, c.uid, "grant")
                    /\ dup_rows' = dup_rows
        /\ UNCHANGED <<interactions, now, ai_client, is_postgres, scen, schema>>

\* the INSERT or the UPDATE of update_xp, computed from what the SELECT
\* delivered, then commit, close and return
XpWrite(p) ==
    LET c == calls[p]
        fresh == [ username    |-> c.name,
                   xp          |-> c.amt,
                   level       |-> 1,
                   streak      |-> 0,
                   last_active |-> strftime(c.t) ]
        seen  == [users EXCEPT ![c.uid].xp = c.res[1][1],
                               ![c.uid].level = c.res[1][2]]
    IN  /\ c.pc = "selected"
        /\ calls' = [calls EXCEPT ![p] = Idle]
        /\ IF c.res = << >>
           THEN IF primary_key_violated(users, c.uid)
                THEN /\ last' = [Raised("update_xp", c.uid) EXCEPT !.call = c]
                     /\ UNCHANGED <<users, dup_rows, open_conns, track>>
                ELSE /\ IF c.uid \in DOMAIN users
                        THEN /\ dup_rows' = Append(dup_rows, [discord_id |-> c.uid] @@ fresh)
                             /\ users' = users
                        ELSE /\ users' = update_xp(users, c.uid, c.name, c.amt, c.t).users
                             /\ dup_rows' = dup_rows
                     /\ last' = [ Done("update_xp", c.uid, "", "", Granted(1, c.amt), 0)
                                  EXCEPT !.call = c ]
                     /\ open_conns' = open_conns - 1
                     /\ track' = TrackStep(track, c.uid, "grant")
           ELSE LET grant == update_xp(seen, c.uid, c.name, c.amt, c.t)
                IN  /\ users' = grant.users
                    /\ last' = [ Done("update_xp", c.uid, "", "", grant.ret, 0)
                                 EXCEPT !.call = c ]
                    /\ open_conns' = open_conns - 1
                    /\ track' = TrackStep(track, c.uid, "grant")
                    /\ dup_rows' = dup_rows
        /\ UNCHANGED <<interactions, now, ai_client, is_postgres, scen, schema>>

(***************************************************************************)
(* api.py: the HTTP handlers                                               *)
(***************************************************************************)
WebUser == "Ariel_Web"

\* POST /summon
summon_oracle ==
    /\ \E verdict \in consult_oracle, outcome \in GeminiOutcomes :
         \E roast \in summon_roast(ai_client, outcome) :
            last' = [ Done("summon", WebUser, verdict, roast, NoRet, 0)
                      EXCEPT !.ai = AiSeen(ai_client, outcome) ]
    /\ UNCHANGED <<users, interactions, now, ai_client, is_postgres, track, scen>>
    /\ UNCHANGED store

\* GET /stats
get_stats ==
    /\ last' = [ Done("get_stats", "", "", "", NoRet, 0) EXCEPT
                   !.ret = [kind |-> "count",
                            total_punishments_served |-> get_total_count(interactions)] ]
    /\ UNCHANGED <<users, interactions, now, ai_client, is_postgres, track, scen>>
    /\ UNCHANGED store

\* GET /history that takes the records it hands out off the log
get_history_pops ==
    LET recent == get_recent_history(interactions, HistoryLimit)
    IN  /\ last' = [ Done("get_history", "", "", "", NoRet, 0) EXCEPT
                       !.ret = [kind |-> "history", recent_punishments |-> recent] ]
        /\ interactions' = SubSeq(interactions, 1, Len(interactions) - Len(recent))
        /\ UNCHANGED <<users, now, ai_client, is_postgres, track, scen>>
        /\ UNCHANGED store

\* GET /history
get_history ==
    /\ last' = [ Done("get_history", "", "", "", NoRet, 0) EXCEPT
                   !.ret = [kind |-> "history",
                            recent_punishments |->
                                get_recent_history(interactions, HistoryLimit)] ]
    /\ UNCHANGED <<users, interactions, now, ai_client, is_postgres, track, scen>>
    /\ UNCHANGED store

\* GET /dashboard: STEP 1, the four reads
dashboard ==
    /\ last' = [ Done("dashboard", "", "", "", NoRet, 0) EXCEPT
                   !.ret = [kind |-> "dashboard",
                            count        |-> get_total_count(interactions),
                            history      |-> get_recent_history(interactions, HistoryLimit),
                            distribution |-> get_verdict_counts(interactions),
                            hourly_stats |-> get_hourly_activity(interactions, is_postgres)] ]
    /\ UNCHANGED <<users, interactions, now, ai_client, is_postgres, track, scen>>
    /\ UNCHANGED store

(***************************************************************************)
(* Specifications                                                          *)
(***************************************************************************)
\* the bot and a direct caller of update_xp, two subjects, Gemini answering,
\* storage working; the process may restart and run initialize_db again
Next ==
    \/ Tick
    \/ \E u \in Users, n \in Names : OracleCmd(u, n, {"text"}, {"ok"})
    \/ \E u \in Users, n \in Names : ResistCmd(u, n, {"text"}, {"ok"})
    \/ \E u \in Users : StatsCmd(u, {"ok"})
    \/ LeaderboardCmd({"ok"})
    \/ \E u \in Users, n \in Names, a \in Amounts :
            UpdateXpCall(u, n, a, AllUsers, MaxXp, {"ok"})
    \/ initialize_db

Spec == Init /\ [][Next]_vars

\* the ledger with six subjects and the leaderboard read
BoardNext ==
    \/ \E u \in BoardUsers, a \in BoardAmounts :
            UpdateXpCall(u, "Ann", a, {u}, MaxBoardXp, {"ok"})
    \/ LeaderboardCmd({"ok"})

SpecBoard == Init /\ [][BoardNext]_vars

\* the event log over two days, on either backend, and the web API
TickHour == TickTo(HourInstants)

ApiInit == InitWith({TRUE}, BOOLEAN)

ApiNext ==
    \/ TickHour
    \/ \E v \in consult_oracle :
            LogInteractionCall("A", "Ann", v, MaxHourEvents, {"ok"})
    \/ summon_oracle
    \/ get_stats
    \/ get_history
    \/ dashboard

SpecApi == ApiInit /\ [][ApiNext]_vars

\* the bot with storage calls that may fail
FaultNext ==
    \/ OracleCmd("A", "Ann", {"text"}, Faults)
    \/ ResistCmd("A", "Ann", {"text"}, Faults)
    \/ \E u \in Users : StatsCmd(u, Faults)
    \/ LeaderboardCmd(Faults)
    \/ \E a \in Amounts : UpdateXpCall("A", "Ann", a, AllUsers, MaxXp, Faults)
    \/ \E v \in consult_oracle : LogInteractionCall("A", "Ann", v, MaxEvents, Faults)

SpecFault == Init /\ [][FaultNext]_vars

\* two process instances granting XP on one store
RaceAmounts == {10, 50}

RaceNext ==
    \/ Tick
    \/ \E p \in Procs, u \in Users, a \in RaceAmounts : XpSelect(p, u, "Ann", a)
    \/ \E p \in Procs : XpWrite(p)

SpecRace == Init /\ [][RaceNext]_vars

\* the bot and the web API with or without a Gemini client, the generation
\* answering or raising
AiInit == InitWith(BOOLEAN, {FALSE})

AiNext ==
    \/ \E u \in Users : OracleCmd(u, "Ann", GeminiOutcomes, {"ok"})
    \/ \E u \in Users : ResistCmd(u, "Ann", GeminiOutcomes, {"ok"})
    \/ summon_oracle

SpecAi == AiInit /\ [][AiNext]_vars

\* a new store file: DatabaseManager() runs initialize_db before any other
\* operation, and every restart of the process runs it again
SchemaInit == InitStore({TRUE}, {FALSE}, {})

SchemaNext ==
    \/ initialize_db
    \/ schema = Tables /\ \E u \in Users : OracleCmd(u, "Ann", {"text"}, {"ok"})
    \/ schema = Tables /\ \E u \in Users : ResistCmd(u, "Ann", {"text"}, {"ok"})

SpecSchema == SchemaInit /\ [][SchemaNext]_vars

\* the event log and its newest-first read
HistoryLimits == {1, 2, HistoryLimit}

HistoryNext ==
    \/ Tick
    \/ \E u \in Users, v \in consult_oracle :
            LogInteractionCall(u, "Ann", v, MaxHourEvents, {"ok"})
    \/ \E limit \in HistoryLimits : GetRecentHistoryCall(limit)
    \/ get_history

SpecHistory == Init /\ [][HistoryNext]_vars

\* direct callers of update_streak, with storage calls that may fail
StreakNext ==
    \/ \E u \in Users : UpdateXpCall(u, "Ann", 50, AllUsers, MaxXp, {"ok"})
    \/ \E v \in consult_oracle : LogInteractionCall("A", "Ann", v, MaxEvents, {"ok"})
    \/ \E u \in Users, reset \in BOOLEAN : UpdateStreakCall(u, reset, Faults)

SpecStreak == Init /\ [][StreakNext]_vars

\* the grants the commands make, 10 and 50 XP, over several levels
CommandAmounts == {10, 50}

LevelNext ==
    \/ \E u \in Users : OracleCmd(u, "Ann", {"text"}, {"ok"})
    \/ \E u \in Users : ResistCmd(u, "Ann", {"text"}, {"ok"})
    \/ \E u \in Users, a \in CommandAmounts :
            UpdateXpCall(u, "Ann", a, {u}, MaxLevelXp, {"ok"})

SpecLevels == Init /\ [][LevelNext]_vars

\* the reads of the bot and of the web API on a store that holds rows
ReadsNext ==
    \/ \E u \in Users : UpdateXpCall(u, "Ann", 50, AllUsers, MaxXp, {"ok"})
    \/ \E v \in consult_oracle : LogInteractionCall("A", "Ann", v, MaxEvents, {"ok"})
    \/ \E u \in Users : StatsCmd(u, Faults)
    \/ LeaderboardCmd(Faults)
    \/ \E limit \in HistoryLimits : GetRecentHistoryCall(limit)
    \/ get_stats
    \/ get_history
    \/ dashboard

SpecReads == Init /\ [][ReadsNext]_vars

(***************************************************************************)
(* Properties                                                              *)
(***************************************************************************)
\* the smallest L >= 1 with xp < L * 100
SmallestLevel(xp) ==
    CHOOSE L \in 1..(xp \div 100 + 1) :
        /\ xp < L * 100
        /\ \A K \in 1..(L - 1) : ~(xp < K * 100)

\* the operations that end in a call of update_xp and report its result
GrantOps == {"update_xp", "oracle", "resist"}

\* C1: for every subject the stored level, the level get_user_stats reads and
\* the level update_xp returned equal the smallest L >= 1 with xp < L * 100.
C1_LevelInSync ==
    /\ \A u \in DOMAIN users :
          /\ users[u].level = SmallestLevel(users[u].xp)
          /\ get_user_stats(users, u).level = SmallestLevel(get_user_stats(users, u).xp)
    /\ last.op \in GrantOps =>
          last.ret.new_level = SmallestLevel(last.ret.current_xp)

\* the number a two-digit field of a time stamp stands for
FieldValue(f) == 10 * f[1] + f[2]

\* the second a time stamp names
ParseTime(ts) ==
    ts.date * DaySeconds + FieldValue(ts.H) * HourSeconds
        + FieldValue(ts.M) * 60 + FieldValue(ts.S)

\* C2: a !resist of a subject whose latest ledger event is a success less
\* than CooldownSeconds old is rejected: xp, level and last_active stay as
\* they were and the caller is told the remaining wait, cooldown minus
\* elapsed, to the second.
C2_SecondSuccessRejected ==
    (/\ last.op = "resist"
     /\ last.uid \in DOMAIN last.pre
     /\ last.prek.kind = "success"
     /\ last.t - ParseTime(last.pre[last.uid].last_active) < CooldownSeconds)
    => LET before  == last.pre[last.uid]
           after   == users[last.uid]
           elapsed == last.t - ParseTime(before.last_active)
       IN  /\ after.xp = before.xp
           /\ after.level = before.level
           /\ after.last_active = before.last_active
           /\ last.ret.kind = "rejected"
           /\ last.ret.wait - (CooldownSeconds - elapsed) \in {-1, 0, 1}

\* C3: a completed !oracle leaves the subject's streak at 0, whatever it was,
\* and the event log one row longer.
C3_FailureResetsStreak ==
    last.op = "oracle" =>
        /\ last.uid \in DOMAIN users
        /\ users[last.uid].streak = 0
        /\ Len(interactions) = Len(last.preints) + 1

\* an !oracle by a subject whose streak was positive
C3_Witness ==
    /\ last.op = "oracle"
    /\ last.uid \in DOMAIN last.pre
    /\ last.pre[last.uid].streak > 0

\* C4: get_user_stats of a subject without a row returns level 1, xp 0,
\* streak 0, leaves the users table as it was, and no leaderboard read that
\* follows lists the subject.
C4_StatsOfUnknown ==
    (last.op = "stats" /\ last.uid \notin DOMAIN last.pre) =>
        /\ last.ret = [level |-> 1, xp |-> 0, streak |-> 0]
        /\ users = last.pre
        /\ last.uid \notin DOMAIN users
        /\ \A rows \in leaderboard_rows(users) :
              \A i \in 1..Len(rows) : rows[i] # last.uid

\* a stats read of an unknown subject while another subject has a row
C4_Witness ==
    /\ last.op = "stats"
    /\ last.uid \notin DOMAIN last.pre
    /\ DOMAIN users # {}

\* C6: a subject without a row makes a success call of 50 XP and gets
\* (level 1, xp 50); a second success call at once is rejected with a wait of
\* about CooldownSeconds and changes nothing; a call of 60 XP once the
\* cooldown is over gets (level 2, xp 110).
C6_SuccessScenario ==
    \A u \in Users :
        LET mine == last.uid = u /\ last.op \in {"update_xp", "resist"}
        IN  /\ scen[u].pos = 1 =>
                /\ users[u].level = 1 /\ users[u].xp = 50
                /\ mine => last.ret = Granted(1, 50)
            /\ scen[u].pos = 2 =>
                /\ users[u].level = 1 /\ users[u].xp = 50
                /\ users[u].last_active = strftime(scen[u].t0)
                /\ mine => /\ last.ret.kind = "rejected"
                           /\ last.ret.wait - CooldownSeconds \in {-1, 0, 1}
            /\ scen[u].pos = 3 =>
                /\ users[u].level = 2 /\ users[u].xp = 110
                /\ mine => last.ret = Granted(2, 110)

\* the events of the log that carry the subject's id
EventsOf(ints, u) == { i \in DOMAIN ints : ints[i].user_id = u }

\* C7: an !oracle with verdict T by a subject with no row and no event leaves
\* exactly one event of that subject, whose verdict is T, and get_user_stats
\* then reads level 1, xp 10, streak 0.
C7_FirstFailure ==
    (/\ last.op = "oracle"
     /\ last.uid \notin DOMAIN last.pre
     /\ EventsOf(last.preints, last.uid) = {})
    => /\ Cardinality(EventsOf(interactions, last.uid)) = 1
       /\ \A i \in EventsOf(interactions, last.uid) :
             interactions[i].verdict = last.verdict
       /\ get_user_stats(users, last.uid) = [level |-> 1, xp |-> 10, streak |-> 0]

\* a first !oracle of one subject after an event of another subject
C7_Witness ==
    /\ last.op = "oracle"
    /\ last.uid \notin DOMAIN last.pre
    /\ EventsOf(last.preints, last.uid) = {}
    /\ Len(last.preints) > 0
    /\ last.verdict = punishments[14]

\* C10: a subject's stored streak is the number of its !resist commands since
\* its last !oracle (or since its first event), never negative; an !oracle
\* leaves it at 0 and a !resist one above what it was.
C10_StreakCountsSuccesses ==
    /\ \A u \in DOMAIN users :
          /\ users[u].streak = track[u].run
          /\ users[u].streak >= 0
    /\ last.op = "oracle" => users[last.uid].streak = 0
    /\ last.op = "resist" =>
          users[last.uid].streak =
              (IF last.uid \in DOMAIN last.pre THEN last.pre[last.uid].streak ELSE 0) + 1

\* a subject that failed once and has resisted twice since
C10_Witness ==
    \E u \in DOMAIN users :
        /\ users[u].streak = 2
        /\ EventsOf(interactions, u) # {}
        /\ last.op = "resist" /\ last.uid = u

RECURSIVE SeqSum(_)
SeqSum(q) == IF q = << >> THEN 0 ELSE q[1] + SeqSum(Tail(q))

\* the hour of the day, 0 .. 23, in which an event was logged
HourOf(e) == (ParseTime(e.timestamp) \div HourSeconds) % 24

\* C5: on a non-empty event log get_hourly_activity is a list of 24 naturals,
\* entry k counting the events logged in hour k - 1 of any day, and the
\* entries sum to get_total_count; so do the two values /dashboard hands out.
C5_HourlySumsToTotal ==
    /\ interactions # << >> =>
          LET h == get_hourly_activity(interactions, is_postgres)
          IN  /\ DOMAIN h = 1..24
              /\ \A k \in 1..24 :
                    /\ h[k] \in Nat
                    /\ h[k] = Cardinality({ i \in DOMAIN interactions :
                                              HourOf(interactions[i]) = k - 1 })
              /\ SeqSum(h) = get_total_count(interactions)
    /\ (last.op = "dashboard" /\ interactions # << >>) =>
          /\ Len(last.ret.hourly_stats) = 24
          /\ SeqSum(last.ret.hourly_stats) = last.ret.count

\* a dashboard read of a log with two events in the same hour of different
\* days, one of them before 10 o'clock, and an event in another hour
C5_Witness ==
    /\ last.op = "dashboard"
    /\ \E i, j, k \in DOMAIN interactions :
          /\ interactions[i].timestamp.date # interactions[j].timestamp.date
          /\ HourOf(interactions[i]) = HourOf(interactions[j])
          /\ HourOf(interactions[i]) < 10
          /\ HourOf(interactions[k]) >= 10

\* what the ranking puts first: the higher level, on equal levels the higher xp
RanksAbove(r1, r2) ==
    r1.level > r2.level \/ (r1.level = r2.level /\ r1.xp > r2.xp)

\* C8: get_leaderboard returns at most 5 subjects, as many as there are when
\* there are fewer, each once, in an order in which no later entry ranks above
\* an earlier one, and no subject left out ranks above a returned one.
C8_LeaderboardTop ==
    last.op = "leaderboard" =>
        LET ids   == last.ret.ids
            board == last.ret.board
            n     == Cardinality(DOMAIN users)
        IN  /\ Len(board) <= 5
            /\ Len(board) = IF n < 5 THEN n ELSE 5
            /\ Len(ids) = Len(board)
            /\ \A i \in 1..Len(ids) :
                  /\ ids[i] \in DOMAIN users
                  /\ board[i] = [ username |-> users[ids[i]].username,
                                  level    |-> users[ids[i]].level,
                                  xp       |-> users[ids[i]].xp ]
            /\ \A i, j \in 1..Len(ids) : i < j =>
                  /\ ids[i] # ids[j]
                  /\ ~RanksAbove(board[j], board[i])
            /\ \A d \in DOMAIN users :
                  (\A i \in 1..Len(ids) : ids[i] # d) =>
                      \A i \in 1..Len(ids) : ~RanksAbove(users[d], users[ids[i]])

\* a leaderboard read of six subjects on two levels, a level-1 subject
\* holding as much xp as a level-2 subject
C8_Witness ==
    /\ last.op = "leaderboard"
    /\ Cardinality(DOMAIN users) = 6
    /\ \E d, e \in DOMAIN users :
          users[d].level = 2 /\ users[e].level = 1 /\ users[e].xp = users[d].xp

\* C9: a POST /summon selects one punishment, appends one event record for
\* the web subject with that verdict, grants XP to the web subject and
\* returns the verdict and a roast.
C9_SummonRecords ==
    last.op = "summon" =>
        /\ last.verdict \in { punishments[i] : i \in DOMAIN punishments }
        /\ last.roast # ""
        /\ Len(interactions) = Len(last.preints) + 1
        /\ interactions[Len(interactions)].user_id = WebUser
        /\ interactions[Len(interactions)].verdict = last.verdict
        /\ WebUser \in DOMAIN users
        /\ users[WebUser].xp >
              (IF WebUser \in DOMAIN last.pre THEN last.pre[WebUser].xp ELSE 0)

\* C11: for every subject the stored level is an integer >= 1, and no
\* operation of a sequence of ledger operations leaves it lower than it was
C11_LevelNeverDecreases ==
    \A u \in DOMAIN users :
        /\ users[u].level \in Nat
        /\ users[u].level >= 1
        /\ u \in DOMAIN last.pre => users[u].level >= last.pre[u].level

\* a grant to an existing subject has raised its level
C11_Witness ==
    /\ last.op \in GrantOps
    /\ last.uid \in DOMAIN last.pre
    /\ users[last.uid].level = last.pre[last.uid].level + 1

\* C12: for every subject the stored xp is a non-negative integer, and no
\* operation of a sequence of ledger operations granting 10, 50 or another
\* non-negative amount leaves it lower than it was
C12_XpNeverDecreases ==
    \A u \in DOMAIN users :
        /\ users[u].xp \in Nat
        /\ u \in DOMAIN last.pre => users[u].xp >= last.pre[u].xp

\* a !resist has taken an existing subject's xp over the level threshold
C12_Witness ==
    /\ last.op = "resist"
    /\ last.uid \in DOMAIN last.pre
    /\ last.pre[last.uid].xp < 100
    /\ users[last.uid].xp = last.pre[last.uid].xp + 50
    /\ users[last.uid].xp >= 100

\* the rows the users table holds under the id u
RowsOf(u) ==
    (IF u \in DOMAIN users THEN 1 ELSE 0)
    + Cardinality({ i \in DOMAIN dup_rows : dup_rows[i].discord_id = u })

\* C13: in every state there is at most one users row per discord_id, also
\* when two first grants to one unknown id both select before either inserts
C13_OneRowPerSubject == \A u \in AllUsers : RowsOf(u) <= 1

\* the INSERT of the second of two interleaved first grants was refused
C13_Witness ==
    /\ last.op = "update_xp"
    /\ last.raised
    /\ last.uid \in DOMAIN users
    /\ RowsOf(last.uid) = 1

\* C14: event records are append-only: the rows that were in the event log
\* before an operation (a grant under another display name, a streak
\* update, a read, initialize_db) are in it afterwards, at their places and
\* with their id, user_id, user_name, verdict and timestamp
C14_EventsAppendOnly ==
    /\ Len(interactions) >= Len(last.preints)
    /\ \A i \in DOMAIN last.preints : interactions[i] = last.preints[i]

\* a subject with an event on record was granted XP under another name
C14_Witness ==
    /\ last.op = "update_xp"
    /\ \E i \in DOMAIN interactions :
          /\ interactions[i].user_id = last.uid
          /\ interactions[i].user_name # users[last.uid].username

\* C15: a users row comes into being only by an XP grant to a subject that
\* has none, and no operation deletes one
C15_RowsCreatedByGrantOnly ==
    /\ DOMAIN last.pre \subseteq DOMAIN users
    /\ DOMAIN users \ DOMAIN last.pre
          \subseteq (IF last.op \in GrantOps /\ ~last.raised THEN {last.uid} ELSE {})

\* the first !resist of a subject created its row beside the existing ones
C15_Witness ==
    /\ last.op = "resist"
    /\ last.uid \notin DOMAIN last.pre
    /\ last.uid \in DOMAIN users
    /\ DOMAIN last.pre # {}

\* C16: after any operation has returned or raised, no connection that it
\* opened is left unclosed
C16_ConnectionsReleased == open_conns = 0

\* C17: no exception leaves the handler of !resist, !oracle, !stats or
\* !leaderboard when a storage call fails
C17_NoEscape ==
    last.op \in {"resist", "oracle", "stats", "leaderboard"} => ~last.raised

\* C18: when there is no Gemini client or the generation raises, the roast
\* of !oracle and of POST /summon is one of the fixed backup roasts, and the
\* request completes with a verdict
C18_BackupRoast ==
    last.ai \in {"absent", "raise"} =>
        /\ last.op = "oracle" => last.roast \in BACKUP_ROASTS
        /\ last.op = "summon" => last.roast \in API_BACKUP_ROASTS
        /\ last.op \in {"oracle", "summon"} =>
              last.verdict \in consult_oracle /\ ~last.raised

\* the generation raised during an !oracle
C18_Witness ==
    /\ last.op = "oracle"
    /\ last.ai = "raise"
    /\ last.verdict \in consult_oracle

\* C19: initialize_db raises nothing and leaves both tables existing; the
\* rows of a table that existed are unchanged, a table that did not is empty
C19_InitializeIdempotent ==
    last.op = "initialize_db" =>
        /\ ~last.raised
        /\ schema = Tables
        /\ users = (IF "users" \in last.pretabs THEN last.pre ELSE << >>)
        /\ interactions =
              (IF "interactions" \in last.pretabs THEN last.preints ELSE << >>)

\* initialize_db ran on a store whose two tables hold rows
C19_Witness ==
    /\ last.op = "initialize_db"
    /\ last.pretabs = Tables
    /\ users # << >>
    /\ interactions # << >>

\* the event record with insertion id k
EventOfId(k) == CHOOSE e \in { interactions[i] : i \in DOMAIN interactions } : e.id = k

LastId == IF interactions = << >> THEN 0 ELSE interactions[Len(interactions)].id

\* C20: get_recent_history(limit), and GET /history with its limit of 5,
\* deliver at most limit records: the one with the highest insertion id
\* first, then the ids below it one by one
C20_RecentNewestFirst ==
    last.op \in {"get_recent_history", "get_history"} =>
        LET limit == IF last.op = "get_history" THEN 5 ELSE last.ret.limit
            rows  == IF last.op = "get_history" THEN last.ret.recent_punishments
                     ELSE last.ret.rows
        IN  /\ Len(rows) <= limit
            /\ Len(rows) = (IF LastId < limit THEN LastId ELSE limit)
            /\ \A i \in DOMAIN rows :
                  /\ rows[i].user = EventOfId(LastId + 1 - i).user_name
                  /\ rows[i].verdict = EventOfId(LastId + 1 - i).verdict
                  /\ rows[i].time = EventOfId(LastId + 1 - i).timestamp

\* a read of fewer records than the log holds delivered two distinct ones
C20_Witness ==
    /\ last.op = "get_recent_history"
    /\ last.ret.limit = 2
    /\ Len(interactions) > 2
    /\ Len(last.ret.rows) = 2
    /\ last.ret.rows[1] # last.ret.rows[2]

\* C21: every write of update_xp to an existing row adds its xp_amount to the
\* xp the row holds when the write lands, so that of two interleaved calls
\* for one subject no grant is lost
C21_NoGrantLost ==
    (/\ last.op = "update_xp"
     /\ ~last.raised
     /\ last.uid \in DOMAIN last.pre)
    => users[last.uid].xp = last.pre[last.uid].xp + last.call.amt

\* a call of update_xp whose SELECT came before the write of another call for
\* the same subject, the other call's time less than the cooldown away
Overtaken ==
    /\ last.op = "update_xp"
    /\ last.call.res # << >>
    /\ last.uid \in DOMAIN last.pre
    /\ last.pre[last.uid].xp # last.call.res[1][1]
    /\ last.call.t - ParseTime(last.pre[last.uid].last_active) < CooldownSeconds
    /\ ParseTime(last.pre[last.uid].last_active) - last.call.t < CooldownSeconds

C23_FailureAllOrNone ==
    last.op = "oracle" =>
        LET u       == last.uid
            before  == IF u \in DOMAIN last.pre THEN last.pre[u].xp ELSE 0
            logged  == /\ Len(interactions) = Len(last.preints) + 1
                       /\ interactions[Len(interactions)].user_id = u
            reset   == u \in DOMAIN users /\ users[u].streak = 0
            granted == u \in DOMAIN users /\ users[u].xp = before + 10
            nothing == interactions = last.preints /\ users = last.pre
        IN  /\ (logged /\ reset /\ granted) \/ nothing
            /\ u \in DOMAIN users =>
                  /\ last.ret.new_level = users[u].level
                  /\ last.ret.current_xp = users[u].xp

\* C24: when log_interaction or update_xp raises during an !oracle, no
\* exception leaves the handler, it reports level 0 and xp 0, and the embed
\* with the verdict and the roast is sent
C24_FailureDegrades ==
    (last.op = "oracle" /\ last.failed \cap {"log_interaction", "update_xp"} # {})
    => /\ ~last.raised
       /\ last.ret.new_level = 0
       /\ last.ret.current_xp = 0
       /\ last.verdict \in consult_oracle
       /\ last.roast \in {GeminiText} \cup BACKUP_ROASTS

\* the event was logged, then update_xp raised
C24_Witness ==
    /\ last.op = "oracle"
    /\ "update_xp" \in last.failed
    /\ Len(interactions) = Len(last.preints) + 1
    /\ last.ret.new_level = 0

\* C25: a grant stores the name it was called with and the time of the call
\* as the subject's username and last_active, and no other operation and no
\* grant to another subject changes the two
C25_NameAndLastActive ==
    /\ (last.op \in GrantOps /\ last.call.pc = "returned") =>
          /\ last.uid \in DOMAIN users
          /\ users[last.uid].username = last.call.name
          /\ ParseTime(users[last.uid].last_active) = last.call.t
    /\ \A u \in DOMAIN last.pre :
          (last.op \notin GrantOps \/ u # last.uid) =>
              /\ users[u].username = last.pre[u].username
              /\ users[u].last_active = last.pre[u].last_active

\* a later grant to an existing subject under another name
C25_Witness ==
    /\ last.op \in GrantOps
    /\ last.call.pc = "returned"
    /\ last.uid \in DOMAIN last.pre
    /\ last.pre[last.uid].username # last.call.name
    /\ ParseTime(last.pre[last.uid].last_active) < last.call.t

\* C26: update_streak leaves the event log, the set of subject rows, every
\* other subject's row and the subject's own xp, level, last_active and
\* username as they were
C26_StreakOnly ==
    last.op = "update_streak" =>
        /\ interactions = last.preints
        /\ DOMAIN users = DOMAIN last.pre
        /\ \A u \in DOMAIN users :
              /\ u # last.uid => users[u] = last.pre[u]
              /\ users[u].xp = last.pre[u].xp
              /\ users[u].level = last.pre[u].level
              /\ users[u].last_active = last.pre[u].last_active
              /\ users[u].username = last.pre[u].username

\* update_streak changed the streak of one of two subjects
C26_Witness ==
    /\ last.op = "update_streak"
    /\ last.uid \in DOMAIN last.pre
    /\ users[last.uid].streak # last.pre[last.uid].streak
    /\ DOMAIN users # {last.uid}
    /\ interactions # << >>

\* C27: with grants of 10 and 50 XP made one after the other, every
\* subject's stored level is (xp div 100) + 1
C27_LevelOfCommandGrants ==
    \A u \in DOMAIN users : users[u].level = (users[u].xp \div 100) + 1

\* a grant took a subject from level 2 to level 3
C27_Witness ==
    /\ last.op \in GrantOps
    /\ last.uid \in DOMAIN last.pre
    /\ last.pre[last.uid].level = 2
    /\ users[last.uid].level = 3

\* C28: the (new_level, current_xp) that update_xp returns are the level and
\* the xp stored for the subject when it returns
C28_ReturnIsStored ==
    (last.op = "update_xp" /\ ~last.raised) =>
        /\ last.ret.kind = "granted"
        /\ last.uid \in DOMAIN users
        /\ last.ret.new_level = users[last.uid].level
        /\ last.ret.current_xp = users[last.uid].xp

\* update_xp raised the level of an existing subject
C28_Witness ==
    /\ last.op = "update_xp"
    /\ last.uid \in DOMAIN last.pre
    /\ last.ret.kind = "granted"
    /\ last.ret.new_level = last.pre[last.uid].level + 1

ReadOps ==
    {"stats", "leaderboard", "get_recent_history", "get_stats", "get_history",
     "dashboard"}

\* C29: the reads (!stats, !leaderboard, get_recent_history, GET /stats,
\* GET /history, GET /dashboard) leave both tables as they were
C29_ReadsChangeNothing ==
    last.op \in ReadOps => users = last.pre /\ interactions = last.preints

\* GET /history on a store that holds subjects and events
C29_Witness ==
    /\ last.op = "get_history"
    /\ users # << >>
    /\ Len(last.ret.recent_punishments) >= 1

\* C30: an !oracle or !resist leaves every other subject's row as it was,
\* creates no row for another subject, and the events it adds are the
\* subject's own
C30_OtherSubjectsUntouched ==
    last.op \in {"oracle", "resist"} =>
        /\ \A u \in DOMAIN last.pre \ {last.uid} :
              u \in DOMAIN users /\ users[u] = last.pre[u]
        /\ DOMAIN users \subseteq DOMAIN last.pre \cup {last.uid}
        /\ \A i \in DOMAIN interactions \ DOMAIN last.preints :
              interactions[i].user_id = last.uid

\* an !oracle beside another subject that holds a streak
C30_Witness ==
    /\ last.op = "oracle"
    /\ Len(interactions) = Len(last.preints) + 1
    /\ \E u \in DOMAIN last.pre : u # last.uid /\ last.pre[u].streak > 0

====
